---- MODULE Spec2Model ----
(***************************************************************************)
(* A model of check_orders.py: the order/mailbox pipeline of main, and the *)
(* pure text functions it calls (dec, get_body, html_to_text,              *)
(* detect_tracking, detect_status).                                        *)
(*                                                                         *)
(* Text is modelled at the character level: a Python str (or bytes) is a   *)
(* sequence of one-character strings.  Substring tests, str.lower, the     *)
(* regular expressions and bytes.decode are computed on those sequences.   *)
(***************************************************************************)
EXTENDS Integers, Sequences, FiniteSets, TLC

VARIABLES
    pc,        \* position of main: "start", "sheet", "connect", "open", "loop",
               \* "searched", "gotmsg", "logout", "done", "exit", "crashed";
               \* "call"/"ret" in the specifications of the pure functions
    env,       \* the environment variables read at import (lines 11-13) and
               \* whether the mail store accepts the login
    rows,      \* the list fetch_sheet_rows returned
    idx,       \* index in rows of the row the for loop is at (1-based)
    opened,    \* data/status.csv has been opened for writing
    header,    \* the rows written before the loop (the header row)
    out,       \* the data rows written to data/status.csv, in order
    connected, \* imap_connect returned a session
    logouts,   \* number of imap.logout() calls
    searched,  \* some imap.search command has been issued in this run
    cur,       \* locals of the running search_latest_for_order call
    last,      \* how the latest data row was produced
    exitCode,  \* the process exit status, -1 while running
    arg,       \* pure-function specifications: the arguments of the call
    ret        \* pure-function specifications: the value returned

vars == <<pc, env, rows, idx, opened, header, out, connected, logouts,
          searched, cur, last, exitCode, arg, ret>>

mainVars == <<env, rows, idx, opened, header, out, connected, logouts,
              searched, cur, last, exitCode>>

(***************************************************************************)
(* Bounds of the model.                                                    *)
(***************************************************************************)
MaxBodyFrags == 3      \* fragments concatenated into a body (detect_status)
MaxSubjFrags == 1      \* fragments concatenated into a subject (detect_status)
MaxTrackFrags == 3     \* fragments concatenated into a body (detect_tracking)

MaxRows == 2           \* rows of the sheet
MaxParts == 2          \* parts of a multipart message (get_body)
MaxPayloadFrags == 3   \* fragments concatenated into an HTML payload

NONE == "None"         \* Python's None, where the other values are names
Nil == <<"None">>      \* Python's None, where the other values are str or bytes

(***************************************************************************)
(* Characters and strings.                                                 *)
(***************************************************************************)
Upper == <<"A","B","C","D","E","F","G","H","I","J","K","L","M",
           "N","O","P","Q","R","S","T","U","V","W","X","Y","Z">>
Lower == <<"a","b","c","d","e","f","g","h","i","j","k","l","m",
           "n","o","p","q","r","s","t","u","v","w","x","y","z">>
Digits == {"0","1","2","3","4","5","6","7","8","9"}

IsUpper(c) == \E k \in 1..26 : Upper[k] = c
IsLower(c) == \E k \in 1..26 : Lower[k] = c
IsDigit(c) == c \in Digits

\* str.lower on one character, and on a string
lowerChar(c) == IF IsUpper(c) THEN Lower[CHOOSE k \in 1..26 : Upper[k] = c] ELSE c
lower(s) == [k \in 1..Len(s) |-> lowerChar(s[k])]

\* Python's `h in s` for strings: h occurs in s as a contiguous substring
In(h, s) ==
    \E k \in 1..(Len(s) - Len(h) + 1) : SubSeq(s, k, k + Len(h) - 1) = h

RECURSIVE Concat(_)
\* "".join(parts)
Concat(parts) == IF parts = <<>> THEN <<>> ELSE Head(parts) \o Concat(Tail(parts))

\* all sequences over S of length at most n
SeqsUpTo(S, n) == UNION {[1..k -> S] : k \in 0..n}

(***************************************************************************)
(* STATUS_HINTS (lines 22-26) and detect_status (lines 90-96).             *)
(***************************************************************************)
STATUS_HINTS == [
    delivered |-> {
        <<" ","d","e","l","i","v","e","r","e","d"," ">>,
        <<" ","h","a","s"," ","b","e","e","n"," ","d","e","l","i","v","e","r","e","d">>,
        <<"w","a","s"," ","d","e","l","i","v","e","r","e","d">>,
        <<"d","e","l","i","v","e","r","e","d"," ","o","n">> },
    shipped |-> {
        <<" ","s","h","i","p","p","e","d"," ">>,
        <<" ","o","n"," ","t","h","e"," ","w","a","y"," ">>,
        <<" ","o","u","t"," ","f","o","r"," ","d","e","l","i","v","e","r","y"," ">>,
        <<" ","h","a","s"," ","s","h","i","p","p","e","d"," ">> },
    pending |-> {
        <<" ","o","r","d","e","r"," ","c","o","n","f","i","r","m","e","d"," ">>,
        <<" ","o","r","d","e","r"," ","c","o","n","f","i","r","m","a","t","i","o","n"," ">>,
        <<" ","t","h","a","n","k","s"," ","f","o","r"," ","y","o","u","r"," ","o","r","d","e","r"," ">>,
        <<" ","p","l","a","c","e","d"," ">> } ]

\* s = f" {subject.lower()} {body.lower()} "   (line 91)
StatusText(subject, body) ==
    <<" ">> \o lower(subject) \o <<" ">> \o lower(body) \o <<" ">>

\* any(h in s for h in STATUS_HINTS[kind])
AnyHint(kind, s) == \E h \in STATUS_HINTS[kind] : In(h, s)

\* detect_status with the shipped test ahead of the delivered test
detect_status_ShippedFirst(subject, body, has_tracking) ==
    LET s == StatusText(subject, body)
    IN  IF has_tracking \/ AnyHint("shipped", s) THEN "Shipped"
        ELSE IF AnyHint("delivered", s) THEN "Delivered"
        ELSE "Pending"

detect_status(subject, body, has_tracking) ==
    LET s == StatusText(subject, body)
    IN  IF AnyHint("delivered", s) THEN "Delivered"
        ELSE IF has_tracking \/ AnyHint("shipped", s) THEN "Shipped"
        ELSE IF AnyHint("pending", s) THEN "Pending"
        ELSE IF In(<<"o","r","d","e","r"," ","c","o","n","f","i","r","m","a","t","i","o","n">>, s)
                \/ In(<<"p","l","a","c","e","d">>, s) THEN "Pending"
        ELSE "Pending"

(***************************************************************************)
(* Inputs of the specification of detect_status.                           *)
(***************************************************************************)
StatusBodyFrags == {
    <<" ">>, <<".">>,
    <<"d","e","l","i","v","e","r","e","d">>,
    <<"s","h","i","p","p","e","d">>,
    <<"S","H","I","P","P","E","D">>,
    <<"o","n"," ","t","h","e"," ","w","a","y">>,
    <<"o","n">> }

StatusSubjFrags == {
    <<"w","a","s">>,
    <<"h","a","s">>,
    <<"p","l","a","c","e","d">> }

StatusBodies   == {Concat(fs) : fs \in SeqsUpTo(StatusBodyFrags, MaxBodyFrags)}
StatusSubjects == {Concat(fs) : fs \in SeqsUpTo(StatusSubjFrags, MaxSubjFrags)}

\* the values main's variables hold in the specifications of the pure functions
Idle ==
    /\ env = NONE /\ rows = <<>> /\ idx = 0 /\ opened = FALSE /\ header = <<>>
    /\ out = <<>> /\ connected = FALSE /\ logouts = 0 /\ searched = FALSE
    /\ cur = NONE /\ last = NONE /\ exitCode = -1

\* the call of the pure function fn has returned
Returned(fn) == pc = "ret" /\ arg.fn = fn

InitStatus ==
    /\ Idle
    /\ pc = "call"
    /\ arg \in [fn : {"detect_status"}, subject : StatusSubjects,
                body : StatusBodies, has_tracking : BOOLEAN]
    /\ ret = NONE

CallDetectStatus ==
    /\ pc = "call" /\ arg.fn = "detect_status"
    /\ ret' = detect_status(arg.subject, arg.body, arg.has_tracking)
    /\ pc' = "ret"
    /\ UNCHANGED <<arg, mainVars>>

NextStatus == CallDetectStatus

SpecStatus == InitStatus /\ [][NextStatus]_vars

(***************************************************************************)
(* The carrier patterns (lines 16-20).  Each has the shape                 *)
(*     \b prefix class{lo,hi} \b                                           *)
(* with class \d or [0-9A-Z]; `icase` is re.I, `open` an unbounded hi (+). *)
(***************************************************************************)
RE_UPS   == [prefix |-> <<"1","Z">>, cls |-> "alnum", lo |-> 16, hi |-> 16,
             open |-> FALSE, icase |-> TRUE]
RE_USPS  == [prefix |-> <<"9">>, cls |-> "digit", lo |-> 21, hi |-> 22,
             open |-> FALSE, icase |-> FALSE]
RE_FEDEX == [prefix |-> <<>>, cls |-> "digit", lo |-> 12, hi |-> 22,
             open |-> FALSE, icase |-> FALSE]
RE_DHL   == [prefix |-> <<>>, cls |-> "digit", lo |-> 10, hi |-> 10,
             open |-> FALSE, icase |-> FALSE]
RE_TBA   == [prefix |-> <<"T","B","A">>, cls |-> "alnum", lo |-> 1, hi |-> 1,
             open |-> TRUE, icase |-> TRUE]

\* \w
IsWord(c) == IsDigit(c) \/ IsUpper(c) \/ IsLower(c) \/ c = "_"
IsWordAt(s, j) == j \in 1..Len(s) /\ IsWord(s[j])
\* \b holds at the position between s[j-1] and s[j]
Boundary(s, j) == IsWordAt(s, j - 1) # IsWordAt(s, j)

InClass(rx, c) ==
    IF rx.cls = "digit" THEN IsDigit(c)
    ELSE IsDigit(c) \/ IsUpper(c) \/ (rx.icase /\ IsLower(c))

SameChar(rx, c, d) == IF rx.icase THEN lowerChar(c) = lowerChar(d) ELSE c = d

\* the repetition counts n for which the pattern matches s at position i
MatchCounts(rx, s, i) ==
    LET p  == Len(rx.prefix)
        hi == IF rx.open THEN Len(s) ELSE rx.hi
    IN  IF /\ Boundary(s, i)
           /\ i + p - 1 <= Len(s)
           /\ \A k \in 1..p : SameChar(rx, s[i + k - 1], rx.prefix[k])
        THEN {n \in rx.lo..hi :
                /\ i + p + n - 1 <= Len(s)
                /\ \A k \in 1..n : InClass(rx, s[i + p + k - 1])
                /\ Boundary(s, i + p + n)}
        ELSE {}

Max(S) == CHOOSE x \in S : \A y \in S : y <= x
Min(S) == CHOOSE x \in S : \A y \in S : x <= y

\* rx.search(s): the leftmost match, its repetition greedy; NONE when there is
\* none.  The value is m.group(0) wrapped in a record.
re_search(rx, s) ==
    LET starts == {i \in 1..Len(s) : MatchCounts(rx, s, i) # {}}
    IN  IF starts = {} THEN [found |-> FALSE, group |-> <<>>]
        ELSE LET i == Min(starts)
                 n == Max(MatchCounts(rx, s, i))
             IN  [found |-> TRUE,
                  group |-> SubSeq(s, i, i + Len(rx.prefix) + n - 1)]

\* the tuple of line 85 with the generic digit pattern ahead of USPS
TrackingPatterns_FedExFirst == <<
    [name |-> "UPS", rx |-> RE_UPS],
    [name |-> "FedEx", rx |-> RE_FEDEX],
    [name |-> "USPS", rx |-> RE_USPS],
    [name |-> "DHL", rx |-> RE_DHL],
    [name |-> "Amazon Logistics", rx |-> RE_TBA] >>

\* the tuple detect_tracking iterates over (line 85)
TrackingPatterns == <<
    [name |-> "UPS", rx |-> RE_UPS],
    [name |-> "USPS", rx |-> RE_USPS],
    [name |-> "FedEx", rx |-> RE_FEDEX],
    [name |-> "DHL", rx |-> RE_DHL],
    [name |-> "Amazon Logistics", rx |-> RE_TBA] >>

RECURSIVE TrackingFrom(_, _)
\* the for loop of detect_tracking from the k-th pattern on
TrackingFrom(k, body) ==
    IF k > Len(TrackingPatterns) THEN [carrier |-> "", tracking |-> <<>>]
    ELSE LET m == re_search(TrackingPatterns[k].rx, body)
         IN  IF m.found
             THEN [carrier |-> TrackingPatterns[k].name, tracking |-> m.group]
             ELSE TrackingFrom(k + 1, body)

\* detect_tracking (lines 84-88); the pair (name, number) as a record
detect_tracking(body) == TrackingFrom(1, body)

(***************************************************************************)
(* Inputs of the specification of detect_tracking.                         *)
(***************************************************************************)
TrackFrags == {
    <<" ">>,
    <<"9">>,
    <<"1","0","0","0","0","0","0","0","0","0">>,
    <<"1","0","0","0","0","0","0","0","0","0","0">>,
    <<"1","0","0","0","0","0","0","0","0","0","0","0">>,
    <<"1","z","9","9","9","A","A","1","0","1","2","3","4","5","6","7","8","4">>,
    <<"t","b","A","1">> }

TrackBodies == {Concat(fs) : fs \in SeqsUpTo(TrackFrags, MaxTrackFrags)}

InitTracking ==
    /\ Idle
    /\ pc = "call"
    /\ arg \in [fn : {"detect_tracking"}, body : TrackBodies]
    /\ ret = NONE

CallDetectTracking ==
    /\ pc = "call" /\ arg.fn = "detect_tracking"
    /\ ret' = detect_tracking(arg.body)
    /\ pc' = "ret"
    /\ UNCHANGED <<arg, mainVars>>

NextTracking == CallDetectTracking

SpecTracking == InitTracking /\ [][NextTracking]_vars

(***************************************************************************)
(* bytes.decode(encoding, "ignore") as lines 54, 62, 67 and 70 call it.    *)
(* A bytes value is a sequence of characters in which "xFF" stands for a   *)
(* byte that is invalid in the encoding; "ignore" drops such bytes.  An    *)
(* encoding Python does not know raises LookupError: ok is FALSE.          *)
(***************************************************************************)
KnownCharsets == {"utf-8"}
InvalidByte == "xFF"

DropInvalid(b) == SelectSeq(b, LAMBDA c : c # InvalidByte)

\* b.decode(charset or "utf-8", "ignore")
decode(b, charset) ==
    LET enc == IF charset = NONE THEN "utf-8" ELSE charset
    IN  IF enc \in KnownCharsets
        THEN [ok |-> TRUE, text |-> DropInvalid(b)]
        ELSE [ok |-> FALSE, text |-> <<>>]

(***************************************************************************)
(* dec (lines 50-55).  A header value is modelled by what decode_header    *)
(* yields for it: a sequence of segments (t, enc), t bytes or str.  An     *)
(* absent or empty header is the empty sequence.                           *)
(***************************************************************************)
RECURSIVE DecSegments(_)
DecSegments(segs) ==
    IF segs = <<>> THEN [ok |-> TRUE, text |-> <<>>]
    ELSE LET h    == Head(segs)
             one  == IF h.bytes THEN decode(h.t, h.enc) ELSE [ok |-> TRUE, text |-> h.t]
             rest == DecSegments(Tail(segs))
         IN  IF one.ok /\ rest.ok
             THEN [ok |-> TRUE, text |-> one.text \o rest.text]
             ELSE [ok |-> FALSE, text |-> <<>>]

\* ok = FALSE: dec raised (LookupError from line 54)
dec(s) == IF s = <<>> THEN [ok |-> TRUE, text |-> <<>>] ELSE DecSegments(s)

(***************************************************************************)
(* html_to_text (line 57).                                                 *)
(***************************************************************************)
IsSpace(c) == c \in {" ", "\n", "\t"}

\* the position of the first ">" at or after j, 0 when there is none
FirstGt(h, j) ==
    LET gts == {k \in j..Len(h) : h[k] = ">"}
    IN  IF gts = {} THEN 0 ELSE Min(gts)

RECURSIVE StripTagsFrom(_, _)
\* re.sub(r"<[^>]+>", " ", h), scanning from position i
StripTagsFrom(h, i) ==
    IF i > Len(h) THEN <<>>
    ELSE LET j == FirstGt(h, i + 1)
         IN  IF h[i] = "<" /\ j >= i + 2
             THEN <<" ">> \o StripTagsFrom(h, j + 1)
             ELSE <<h[i]>> \o StripTagsFrom(h, i + 1)

RECURSIVE CollapseFrom(_, _)
\* re.sub(r"\s+", " ", h), scanning from position i
CollapseFrom(h, i) ==
    IF i > Len(h) THEN <<>>
    ELSE IF IsSpace(h[i])
         THEN IF i > 1 /\ IsSpace(h[i - 1])
              THEN CollapseFrom(h, i + 1)
              ELSE <<" ">> \o CollapseFrom(h, i + 1)
         ELSE <<h[i]>> \o CollapseFrom(h, i + 1)

\* the character references html.unescape replaces, of those the model uses
HtmlEntities == {
    [ref |-> <<"&","l","t",";">>, ch |-> "<"],
    [ref |-> <<"&","g","t",";">>, ch |-> ">"],
    [ref |-> <<"&","a","m","p",";">>, ch |-> "&"] }

StartsAt(h, i, w) == i + Len(w) - 1 <= Len(h) /\ SubSeq(h, i, i + Len(w) - 1) = w

RECURSIVE UnescapeFrom(_, _)
\* html.unescape(h), one pass from position i
UnescapeFrom(h, i) ==
    IF i > Len(h) THEN <<>>
    ELSE IF \E e \in HtmlEntities : StartsAt(h, i, e.ref)
         THEN LET e == CHOOSE x \in HtmlEntities : StartsAt(h, i, x.ref)
              IN  <<e.ch>> \o UnescapeFrom(h, i + Len(e.ref))
         ELSE <<h[i]>> \o UnescapeFrom(h, i + 1)

html_to_text(h) == UnescapeFrom(CollapseFrom(StripTagsFrom(h, 1), 1), 1)

(***************************************************************************)
(* get_body (lines 58-72).  msg.parts is what msg.walk() yields, in order; *)
(* a part has a content type, a declared charset (NONE when undeclared)    *)
(* and a payload.  A non-multipart message carries these itself.           *)
(***************************************************************************)
RECURSIVE FirstDecoded(_, _, _)
\* one `for p in msg.walk()` loop from the k-th part on, for content type ct:
\* the first part of that type whose payload decodes; found = FALSE when the
\* loop runs out
FirstDecoded(parts, ct, k) ==
    IF k > Len(parts) THEN [found |-> FALSE, text |-> <<>>]
    ELSE IF parts[k].ctype = ct /\ decode(parts[k].payload, parts[k].charset).ok
         THEN [found |-> TRUE, text |-> decode(parts[k].payload, parts[k].charset).text]
         ELSE FirstDecoded(parts, ct, k + 1)

\* get_body with the HTML loop ahead of the plain-text loop
get_body_HtmlFirst(msg) ==
    IF msg.multipart
    THEN LET plain == FirstDecoded(msg.parts, "text/plain", 1)
             html  == FirstDecoded(msg.parts, "text/html", 1)
         IN  IF html.found THEN html_to_text(html.text)
             ELSE IF plain.found THEN plain.text
             ELSE <<>>
    ELSE LET d == decode(msg.payload, msg.charset)
         IN  IF d.ok THEN d.text ELSE <<>>

get_body(msg) ==
    IF msg.multipart
    THEN LET plain == FirstDecoded(msg.parts, "text/plain", 1)
             html  == FirstDecoded(msg.parts, "text/html", 1)
         IN  IF plain.found THEN plain.text
             ELSE IF html.found THEN html_to_text(html.text)
             ELSE <<>>
    ELSE LET d == decode(msg.payload, msg.charset)
         IN  IF d.ok THEN d.text ELSE <<>>

(***************************************************************************)
(* Inputs of the specification of get_body.                                *)
(***************************************************************************)
ContentTypes == {"text/plain", "text/html", "multipart/alternative"}
Charsets == {NONE, "utf-8", "bogus"}

\* payloads of the parts of a multipart message
PartPayloads == {
    <<"a","xFF","b">>,
    <<"<","b",">","c"," ","\n","d","<","/","b",">">> }

PayloadFrags == {
    <<"<">>, <<">">>, <<"b">>, <<" ">>, <<"\n">>,
    <<"&","l","t",";">>, <<"&","a","m","p",";">>, <<"xFF">> }

FragPayloads == {Concat(fs) : fs \in SeqsUpTo(PayloadFrags, MaxPayloadFrags)}

Parts == [ctype : ContentTypes, charset : Charsets, payload : PartPayloads]

Multipart(parts) ==
    [multipart |-> TRUE, ctype |-> "multipart/alternative", charset |-> NONE,
     payload |-> <<>>, parts |-> parts]

Single(ctype, charset, payload) ==
    [multipart |-> FALSE, ctype |-> ctype, charset |-> charset,
     payload |-> payload, parts |-> <<>>]

BodyMessages ==
    {Multipart(ps) : ps \in SeqsUpTo(Parts, MaxParts)}
    \cup {Multipart(<<[ctype |-> "text/html", charset |-> NONE, payload |-> b]>>) :
            b \in FragPayloads}
    \cup {Single(ct, cs, b) : ct \in {"text/plain", "text/html"}, cs \in Charsets,
                              b \in PartPayloads}

InitBody ==
    /\ Idle
    /\ pc = "call"
    /\ arg \in [fn : {"get_body"}, msg : BodyMessages]
    /\ ret = NONE

CallGetBody ==
    /\ pc = "call" /\ arg.fn = "get_body"
    /\ ret' = get_body(arg.msg)
    /\ pc' = "ret"
    /\ UNCHANGED <<arg, mainVars>>

NextBody == CallGetBody

SpecBody == InitBody /\ [][NextBody]_vars

(***************************************************************************)
(* The run of main (lines 98-119).                                         *)
(***************************************************************************)
\* truthiness of an environment value or a cell: neither None nor ""
Truthy(v) == v # Nil /\ v # <<>>

RECURSIVE lstrip(_)
lstrip(v) == IF v # <<>> /\ IsSpace(Head(v)) THEN lstrip(Tail(v)) ELSE v
RECURSIVE rstrip(_)
rstrip(v) ==
    IF v # <<>> /\ IsSpace(v[Len(v)]) THEN rstrip(SubSeq(v, 1, Len(v) - 1)) ELSE v
\* str.strip
strip(v) == rstrip(lstrip(v))

\* x or y
Or(x, y) == IF Truthy(x) THEN x ELSE y

\* the cells of the published sheet, before fetch_sheet_rows strips them
\* (line 39); a key the header row lacks is Nil, as r.get returns it
SheetRows == {
    [order_number_sp |-> <<" ","A","1"," ">>, order_number_us |-> Nil,
     site |-> <<"s","h","o","p">>],
    [order_number_sp |-> <<>>, order_number_us |-> <<"B","2">>, site |-> Nil],
    [order_number_sp |-> <<" ">>, order_number_us |-> Nil,
     site |-> <<"s","h","o","p">>] }

StripCell(c) == IF c = Nil THEN Nil ELSE strip(c)

\* fetch_sheet_rows (lines 30-41) on the parsed table
fetch_sheet_rows(table) ==
    [k \in 1..Len(table) |->
        [order_number_sp |-> StripCell(table[k].order_number_sp),
         order_number_us |-> StripCell(table[k].order_number_us),
         site |-> StripCell(table[k].site)]]

\* line 108 and line 109
OrderOf(r) == strip(Or(Or(r.order_number_sp, r.order_number_us), <<>>))
SiteOf(r)  == strip(Or(r.site, <<>>))

HeaderRow == <<"order_number", "site", "status", "tracking", "carrier",
               "email_date", "subject">>

\* the row of line 113
PendingRow(order, site) ==
    [order_number |-> order, site |-> site, status |-> "Pending",
     tracking |-> <<>>, carrier |-> "", email_date |-> <<>>, subject |-> <<>>]

(***************************************************************************)
(* The mail store's answers.                                               *)
(***************************************************************************)
\* data[0] of a SEARCH answer: the matching ids, space separated
SearchData == {
    <<>>,
    <<"1">>,
    <<"1"," ","2">>,
    <<"2"," ","1">>,
    <<"2"," ","1","2">> }

\* (typ, data) as imap.search returns it; data is [] or [None] or [bytes]
SearchResponses ==
    {[typ |-> t, data |-> d] :
        t \in {"OK", "NO"},
        d \in {<<>>, <<Nil>>} \cup {<<b>> : b \in SearchData}}

RECURSIVE split(_)
\* bytes.split(): the maximal runs of non-space bytes
split(b) ==
    LET t == lstrip(b)
    IN  IF t = <<>> THEN <<>>
        ELSE LET sp == {k \in 1..Len(t) : IsSpace(t[k])}
                 n  == IF sp = {} THEN Len(t) ELSE Min(sp) - 1
             IN  <<SubSeq(t, 1, n)>> \o split(SubSeq(t, n + 1, Len(t)))

NoMessage == [none |-> TRUE, headers |-> {}, subject |-> <<>>, date |-> <<>>,
              multipart |-> FALSE, ctype |-> "", charset |-> NONE,
              payload |-> <<>>, parts |-> <<>>]

\* email.message_from_bytes(raw): the headers present, what decode_header
\* yields for Subject and Date, and the MIME structure
Message(headers, subject, date, mime) ==
    [none |-> FALSE, headers |-> headers, subject |-> subject, date |-> date,
     multipart |-> mime.multipart, ctype |-> mime.ctype, charset |-> mime.charset,
     payload |-> mime.payload, parts |-> mime.parts]

Str(t) == [bytes |-> FALSE, t |-> t, enc |-> NONE]
Encoded(t, enc) == [bytes |-> TRUE, t |-> t, enc |-> enc]

\* the messages the store holds
Messages == {
    \* a plain message announcing the shipment, with a UPS number
    Message({"Subject", "Date", "Content-Type"},
            <<Str(<<"Y","o","u","r"," ","o","r","d","e","r">>)>>,
            <<Str(<<"M","o","n">>)>>,
            Single("text/plain", "utf-8",
                   <<"s","h","i","p","p","e","d"," ","1","Z","9","9","9","A","A","1",
                     "0","1","2","3","4","5","6","7","8","4">>)),
    \* an HTML-only message whose subject is an encoded word with a bad byte
    Message({"Subject", "Content-Type"},
            <<Encoded(<<"w","a","s","xFF">>, "utf-8"), Encoded(<<" ">>, NONE)>>,
            <<>>,
            Multipart(<<[ctype |-> "text/html", charset |-> NONE,
                         payload |-> <<"<","b",">","d","e","l","i","v","e","r","e","d",
                                       "<","/","b",">">>]>>)),
    \* a subject whose encoded word names a charset Python does not know
    Message({"Subject", "Date"},
            <<Encoded(<<"s","h","i","p","p","e","d">>, "bogus")>>,
            <<Str(<<"M","o","n">>)>>,
            Single("text/plain", NONE, <<"s","h","i","p","p","e","d">>)),
    \* no Subject, no Date, and a body in a charset Python does not know
    Message({"Content-Type"}, <<>>, <<>>,
            Single("text/plain", "bogus", <<"s","h","i","p","p","e","d">>)),
    \* a message without any header
    Message({}, <<>>, <<>>,
            Single("text/plain", NONE, <<"s","h","i","p","p","e","d">>)) }

\* (typ, msg_data) as imap.fetch returns it, msg_data[0][1] already parsed
FetchResponses ==
    {[typ |-> "NO", items |-> 1, msg |-> NoMessage],
     [typ |-> "OK", items |-> 0, msg |-> NoMessage],
     [typ |-> "OK", items |-> 1, msg |-> NoMessage]}
    \cup {[typ |-> "OK", items |-> 1, msg |-> m] : m \in Messages}

\* len(msg) > 0: `not msg` is true of None and of a message with no header
MsgTruthy(msg) == ~msg.none /\ msg.headers # {}
\* msg.get(name) or ""
HeaderOf(msg, name) ==
    IF name \notin msg.headers THEN <<>>
    ELSE IF name = "Subject" THEN msg.subject ELSE msg.date

\* the criterion of lines 75-76: the TEXT keys, all of which must match
Criteria(order_number, site_hint) ==
    IF Truthy(site_hint)
    THEN <<[key |-> "TEXT", value |-> order_number],
           [key |-> "TEXT", value |-> site_hint]>>
    ELSE <<[key |-> "TEXT", value |-> order_number]>>

NoCall == [crit |-> <<>>, searches |-> 0, typ |-> "", data |-> <<>>,
           fetched |-> <<>>, msg |-> NoMessage, raised |-> ""]
NoRow == [idx |-> 0, typ |-> "", ids |-> 0, fetched |-> FALSE, ran |-> {}]

Environments ==
    [SHEET_CSV_URL : {Nil, <<>>, <<"u">>},
     IMAP_EMAIL : {Nil, <<"m","e">>},
     IMAP_APP_PASSWORD : {Nil, <<>>, <<"p","w">>},
     login : {"OK", "rejected"}]

Tables == SeqsUpTo(SheetRows, MaxRows)

Init ==
    /\ pc = "start"
    /\ env \in Environments
    /\ rows = <<>> /\ idx = 0 /\ opened = FALSE /\ header = <<>> /\ out = <<>>
    /\ connected = FALSE /\ logouts = 0 /\ searched = FALSE
    /\ cur = NoCall /\ last = NoRow /\ exitCode = -1
    /\ arg = NONE /\ ret = NONE

\* die (line 28) and an uncaught exception both end the process with status 1
Die == pc' = "exit" /\ exitCode' = 1
Crash == pc' = "crashed" /\ exitCode' = 1

\* line 99
Start ==
    /\ pc = "start"
    /\ \/ ~Truthy(env.SHEET_CSV_URL) /\ Die
       \/ Truthy(env.SHEET_CSV_URL) /\ pc' = "sheet" /\ exitCode' = exitCode
    /\ UNCHANGED <<env, rows, idx, opened, header, out, connected, logouts,
                   searched, cur, last, arg, ret>>

\* lines 100-101
FetchSheet ==
    /\ pc = "sheet"
    /\ \E table \in Tables :
          /\ rows' = fetch_sheet_rows(table)
          /\ \/ table = <<>> /\ Die
             \/ table # <<>> /\ pc' = "connect" /\ exitCode' = exitCode
    /\ UNCHANGED <<env, idx, opened, header, out, connected, logouts,
                   searched, cur, last, arg, ret>>

\* imap_connect without the test of line 44
imap_connect_NoCheck ==
    /\ pc = "connect"
    /\ \/ /\ env.login = "rejected"
          /\ Crash
          /\ connected' = connected
       \/ /\ env.login = "OK"
          /\ connected' = TRUE
          /\ pc' = "open" /\ exitCode' = exitCode
    /\ UNCHANGED <<env, rows, idx, opened, header, out, logouts, searched,
                   cur, last, arg, ret>>

\* imap_connect (lines 43-48), called at line 103
imap_connect ==
    /\ pc = "connect"
    /\ \/ /\ ~(Truthy(env.IMAP_EMAIL) /\ Truthy(env.IMAP_APP_PASSWORD))
          /\ Die
          /\ connected' = connected
       \/ /\ Truthy(env.IMAP_EMAIL) /\ Truthy(env.IMAP_APP_PASSWORD)
          /\ env.login = "rejected"
          /\ Crash
          /\ connected' = connected
       \/ /\ Truthy(env.IMAP_EMAIL) /\ Truthy(env.IMAP_APP_PASSWORD)
          /\ env.login = "OK"
          /\ connected' = TRUE
          /\ pc' = "open" /\ exitCode' = exitCode
    /\ UNCHANGED <<env, rows, idx, opened, header, out, logouts, searched,
                   cur, last, arg, ret>>

\* lines 104-106
OpenOutput ==
    /\ pc = "open"
    /\ opened' = TRUE
    /\ header' = <<HeaderRow>>
    /\ idx' = 1
    /\ pc' = "loop"
    /\ UNCHANGED <<env, rows, out, connected, logouts, searched, cur, last,
                   exitCode, arg, ret>>

\* lines 108-110 for a row without an order number
SkipRow ==
    /\ pc = "loop" /\ idx <= Len(rows)
    /\ ~Truthy(OrderOf(rows[idx]))
    /\ idx' = idx + 1
    /\ UNCHANGED <<pc, env, rows, opened, header, out, connected, logouts,
                   searched, cur, last, exitCode, arg, ret>>

\* lines 75-77: the search command of search_latest_for_order, which answers
\* or raises (imaplib raises on a BAD answer and on a broken connection)
Search ==
    /\ pc = "loop" /\ idx <= Len(rows)
    /\ Truthy(OrderOf(rows[idx]))
    /\ searched' = TRUE
    /\ LET call == [NoCall EXCEPT
                      !.crit = Criteria(OrderOf(rows[idx]), SiteOf(rows[idx])),
                      !.searches = 1]
       IN  \/ \E r \in SearchResponses :
                /\ cur' = [call EXCEPT !.typ = r.typ, !.data = r.data]
                /\ pc' = "searched" /\ exitCode' = exitCode
           \/ /\ cur' = [call EXCEPT !.raised = "search"]
              /\ Crash
    /\ UNCHANGED <<env, rows, idx, opened, header, out, connected, logouts,
                   last, arg, ret>>

\* line 78 without the test of typ
SearchFound_AnyTyp(c) == c.data # <<>> /\ Truthy(c.data[1])

\* line 78: the search answered OK with a non-empty data[0]
SearchFound(c) == c.typ = "OK" /\ c.data # <<>> /\ Truthy(c.data[1])

\* line 79 taking the first id
LatestId_First(ids) == ids[1]

\* line 79: data[0].split()[-1]
LatestId(ids) == ids[Len(ids)]

\* lines 78-82: the rest of search_latest_for_order
Fetch ==
    /\ pc = "searched"
    /\ \/ /\ ~SearchFound(cur)
          /\ cur' = [cur EXCEPT !.msg = NoMessage]
          /\ pc' = "gotmsg" /\ exitCode' = exitCode
       \/ /\ SearchFound(cur)
          /\ LET ids       == split(cur.data[1])
                 latest_id == LatestId(ids)
                 call      == [cur EXCEPT !.fetched = Append(cur.fetched, latest_id)]
             IN  \/ \E r \in FetchResponses :
                      /\ cur' = [call EXCEPT !.msg =
                                    IF r.typ # "OK" \/ r.items = 0 \/ r.msg.none
                                    THEN NoMessage ELSE r.msg]
                      /\ pc' = "gotmsg" /\ exitCode' = exitCode
                 \/ /\ cur' = [call EXCEPT !.raised = "fetch"]
                    /\ Crash
    /\ UNCHANGED <<env, rows, idx, opened, header, out, connected, logouts,
                   searched, last, arg, ret>>

\* lines 112-117: the row written for the message search_latest_for_order
\* returned, or the exception dec lets through
Emit ==
    /\ pc = "gotmsg"
    /\ LET order == OrderOf(rows[idx])
           site  == SiteOf(rows[idx])
           msg   == cur.msg
           how   == [idx |-> idx, typ |-> cur.typ,
                     ids |-> IF SearchFound(cur) THEN Len(split(cur.data[1])) ELSE 0,
                     fetched |-> ~msg.none, ran |-> {}]
       IN  \/ /\ ~MsgTruthy(msg)
              /\ out' = Append(out, PendingRow(order, site))
              /\ last' = how
              /\ cur' = NoCall
              /\ idx' = idx + 1
              /\ pc' = "loop" /\ exitCode' = exitCode
           \/ /\ MsgTruthy(msg)
              /\ LET subject  == dec(HeaderOf(msg, "Subject"))
                     date_hdr == dec(HeaderOf(msg, "Date"))
                     body     == get_body(msg)
                     track    == detect_tracking(body)
                     status   == detect_status(subject.text, body, track.tracking # <<>>)
                 IN  \/ /\ subject.ok /\ date_hdr.ok
                        /\ out' = Append(out,
                              [order_number |-> order, site |-> site,
                               status |-> status, tracking |-> track.tracking,
                               carrier |-> track.carrier,
                               email_date |-> date_hdr.text,
                               subject |-> subject.text])
                        /\ last' = [how EXCEPT !.ran =
                              {"dec", "get_body", "detect_tracking", "detect_status"}]
                        /\ cur' = NoCall
                        /\ idx' = idx + 1
                        /\ pc' = "loop" /\ exitCode' = exitCode
                     \/ /\ ~(subject.ok /\ date_hdr.ok)
                        /\ cur' = [cur EXCEPT !.raised = "dec"]
                        /\ Crash
                        /\ UNCHANGED <<out, last, idx>>
    /\ UNCHANGED <<env, rows, opened, header, connected, logouts, searched,
                   arg, ret>>

\* line 118, reached when the for loop and the with block end
Logout ==
    /\ pc = "loop" /\ idx > Len(rows)
    /\ logouts' = logouts + 1
    /\ pc' = "done"
    /\ exitCode' = 0
    /\ UNCHANGED <<env, rows, idx, opened, header, out, connected, searched,
                   cur, last, arg, ret>>

Next ==
    \/ Start
    \/ FetchSheet
    \/ imap_connect
    \/ OpenOutput
    \/ SkipRow
    \/ Search
    \/ Fetch
    \/ Emit
    \/ Logout

Spec == Init /\ [][Next]_vars

(***************************************************************************)
(* Properties of the run of main.                                          *)
(***************************************************************************)
Finished == pc \in {"done", "crashed"}

\* the (order, site) pairs of a sequence of rows written
Keys(written) ==
    [k \in 1..Len(written) |->
        [order_number |-> written[k].order_number, site |-> written[k].site]]

\* the (order, site) pairs of the input rows that have an order number
RECURSIVE Expected(_)
Expected(rs) ==
    IF rs = <<>> THEN <<>>
    ELSE IF OrderOf(Head(rs)) = <<>> THEN Expected(Tail(rs))
    ELSE <<[order_number |-> OrderOf(Head(rs)), site |-> SiteOf(Head(rs))]>>
         \o Expected(Tail(rs))

\* C1: when the run ends, the rows written are the input rows that have an
\* order number, in input order, one row each with the input's order number
\* and site, whatever the mail store returned to the searches and fetches.
C1_OneRowPerOrder ==
    (Finished /\ opened /\ cur.raised \notin {"search", "fetch"})
        => Keys(out) = Expected(rows)

\* C2: every run in which imap_connect succeeded ends having called logout
\* exactly once, also when a search, a fetch or a decode failed or raised.
C2_LogoutOnce ==
    (Finished /\ connected) => logouts = 1

\* C3: a failure scoped to one order (no match, a search or fetch the store
\* answers with a failure, a header or body that does not decode) never
\* aborts the run: the run ends normally with a row for every order that has
\* an order number.  Stated for the runs in which every search and fetch
\* command was answered.
C3_OrderFailureNeverAborts ==
    (Finished /\ connected /\ cur.raised \notin {"search", "fetch"})
        => (pc = "done" /\ Len(out) = Len(Expected(rows)))

\* C4: when no message matched (the search did not answer OK, or listed no id,
\* or the fetch returned no message) the row written is exactly
\* (order, site, "Pending", "", "", "", ""), and neither detect_tracking nor
\* detect_status ran for that order.
C4_UnmatchedIsPending ==
    (last.idx > 0 /\ (last.typ # "OK" \/ last.ids = 0 \/ ~last.fetched)) =>
        /\ out[Len(out)] =
              [order_number |-> OrderOf(rows[last.idx]), site |-> SiteOf(rows[last.idx]),
               status |-> "Pending", tracking |-> <<>>, carrier |-> "",
               email_date |-> <<>>, subject |-> <<>>]
        /\ last.ran \cap {"detect_tracking", "detect_status"} = {}

\* the search listed ids and the fetch of the last one failed: a Pending row
C4_Witness ==
    /\ last.idx > 0 /\ last.typ = "OK" /\ last.ids > 1 /\ ~last.fetched
    /\ out[Len(out)].status = "Pending"
    /\ Len(out) = 2

FatalCondition ==
    \/ ~Truthy(env.SHEET_CSV_URL)
    \/ ~Truthy(env.IMAP_EMAIL)
    \/ ~Truthy(env.IMAP_APP_PASSWORD)
    \/ env.login = "rejected"

\* C5: under a fatal condition (no sheet location, no account identity or
\* secret, or a rejected login) the run never gets past imap_connect: the
\* output file is not opened, no row and no header row is written, no search
\* is issued, and the process ends with a non-zero status.
C5_FatalBeforeOutput ==
    FatalCondition =>
        /\ pc \in {"start", "sheet", "connect", "exit", "crashed"}
        /\ ~opened /\ header = <<>> /\ out = <<>>
        /\ ~searched
        /\ pc \in {"exit", "crashed"} => exitCode # 0

\* the sheet had rows and the mail store rejected the login
C5_Witness ==
    /\ env.login = "rejected" /\ Truthy(env.IMAP_EMAIL) /\ Truthy(env.IMAP_APP_PASSWORD)
    /\ rows # <<>>
    /\ pc = "crashed" /\ exitCode = 1

\* the last id of a SEARCH answer: the run of non-space bytes that only
\* spaces follow
IsLastId(b, w) ==
    \E i \in 1..Len(b), j \in 1..Len(b) :
        /\ i <= j /\ w = SubSeq(b, i, j)
        /\ \A k \in i..j : ~IsSpace(b[k])
        /\ i = 1 \/ IsSpace(b[i - 1])
        /\ \A k \in (j + 1)..Len(b) : IsSpace(b[k])

InCall == pc \in {"searched", "gotmsg"} \/ (pc = "crashed" /\ cur.searches > 0)

\* C8: search_latest_for_order issues exactly one search, whose criterion
\* requires the order number and, when a site hint is given, the site hint
\* as well; it fetches at most once, only when the search answered OK with a
\* non-empty id list, and then the last id of that list; with no match it
\* returns None without fetching.
C8_OneSearchLastId ==
    InCall =>
        LET order == OrderOf(rows[idx])
            site  == SiteOf(rows[idx])
            found == cur.typ = "OK" /\ cur.data # <<>> /\ cur.data[1] # Nil
                     /\ cur.data[1] # <<>>
        IN  /\ cur.searches = 1
            /\ \A k \in 1..Len(cur.crit) : cur.crit[k].key = "TEXT"
            /\ [k \in 1..Len(cur.crit) |-> cur.crit[k].value]
                  = (IF site = <<>> THEN <<order>> ELSE <<order, site>>)
            /\ Len(cur.fetched) <= 1
            /\ cur.fetched # <<>> => (found /\ IsLastId(cur.data[1], cur.fetched[1]))
            /\ pc = "searched" => cur.fetched = <<>>
            /\ (pc = "gotmsg" /\ found) => Len(cur.fetched) = 1
            /\ (pc = "gotmsg" /\ ~found) => (cur.fetched = <<>> /\ cur.msg.none)

\* a search with a site hint listed two ids and the second one was fetched
C8_Witness ==
    /\ pc = "gotmsg"
    /\ Len(cur.crit) = 2
    /\ cur.data = << <<"2"," ","1","2">> >>
    /\ cur.fetched = << <<"1","2">> >>
    /\ ~cur.msg.none

(***************************************************************************)
(* Properties of get_body.                                                 *)
(***************************************************************************)
\* the part's payload decodes: its charset is undeclared or known to Python
Decodes(p) == p.charset = NONE \/ p.charset \in KnownCharsets

\* no tag "<...>" is left in r
TagFree(r) ==
    ~\E i \in 1..Len(r), j \in 1..Len(r) :
        /\ j >= i + 2 /\ r[i] = "<" /\ r[j] = ">"
        /\ \A k \in (i + 1)..(j - 1) : r[k] # ">"

\* white space occurs in r only as single spaces
Collapsed(r) ==
    \A k \in 1..Len(r) :
        IsSpace(r[k]) => (r[k] = " " /\ (k = 1 \/ ~IsSpace(r[k - 1])))

\* C9: for a multipart message get_body returns the first text/plain part, in
\* walk order, that decodes, skipping plain parts that do not; only when no
\* plain part decodes, the first text/html part that decodes, its tags
\* stripped, white space collapsed and entities decoded; for a non-multipart
\* message the decoded payload; and the empty string when nothing decodes.
C9_BodyPriority ==
    Returned("get_body") =>
        LET m     == arg.msg
            plain == {k \in 1..Len(m.parts) :
                        m.parts[k].ctype = "text/plain" /\ Decodes(m.parts[k])}
            html  == {k \in 1..Len(m.parts) :
                        m.parts[k].ctype = "text/html" /\ Decodes(m.parts[k])}
        IN  /\ (m.multipart /\ plain # {}) =>
                  ret = DropInvalid(m.parts[Min(plain)].payload)
            /\ (m.multipart /\ plain = {} /\ html # {}) =>
                  LET h == DropInvalid(m.parts[Min(html)].payload)
                  IN  /\ ret = html_to_text(h)
                      /\ Collapsed(ret)
                      /\ ~In(<<"&">>, h) => TagFree(ret)
                      /\ ~In(<<"&","a","m","p",";">>, h) =>
                            \A e \in HtmlEntities : ~In(e.ref, ret)
            /\ (m.multipart /\ plain = {} /\ html = {}) => ret = <<>>
            /\ (~m.multipart /\ Decodes(m)) => ret = DropInvalid(m.payload)
            /\ (~m.multipart /\ ~Decodes(m)) => ret = <<>>

\* an HTML part and a plain part that does not decode stand before the plain
\* part that is returned
C9_Witness ==
    /\ Returned("get_body")
    /\ arg.msg.multipart /\ Len(arg.msg.parts) = 2
    /\ arg.msg.parts[1].ctype = "text/plain" /\ arg.msg.parts[1].charset = "bogus"
    /\ arg.msg.parts[2].ctype = "text/plain" /\ arg.msg.parts[2].charset = NONE
    /\ arg.msg.parts[1].payload # arg.msg.parts[2].payload
    /\ ret = <<"a","b">>

ShippedPhrases == {
    <<"s","h","i","p","p","e","d">>,
    <<"o","n"," ","t","h","e"," ","w","a","y">>,
    <<"o","u","t"," ","f","o","r"," ","d","e","l","i","v","e","r","y">>,
    <<"h","a","s"," ","s","h","i","p","p","e","d">> }

\* C10: with no tracking number and no delivered phrase, a shipped phrase
\* anywhere in the subject or the body, in any case and next to anything,
\* classifies the order as Shipped.
C10_ShippedPhraseAnywhere ==
    ( /\ Returned("detect_status")
      /\ ~arg.has_tracking
      /\ ~In(<<"d","e","l","i","v","e","r","e","d">>,
             lower(arg.subject) \o <<" ">> \o lower(arg.body))
      /\ \E p \in ShippedPhrases :
            In(p, lower(arg.subject)) \/ In(p, lower(arg.body)) )
    => ret = "Shipped"

(***************************************************************************)
(* Properties of detect_tracking, stated on the words of the body: the     *)
(* maximal runs of \w characters.                                          *)
(***************************************************************************)
WordEnd(s, a) == Min({b \in a..Len(s) : ~IsWordAt(s, b + 1)})
Words(s) ==
    {<<a, WordEnd(s, a)>> : a \in {k \in 1..Len(s) : IsWord(s[k]) /\ ~IsWordAt(s, k - 1)}}

AllDigits(w) == \A k \in 1..Len(w) : IsDigit(w[k])
AllAlnum(w)  == \A k \in 1..Len(w) : IsDigit(w[k]) \/ IsUpper(w[k]) \/ IsLower(w[k])

\* the carrier shapes of section 4.3 of the specification
Shape(name, w) ==
    CASE name = "UPS" ->
            /\ Len(w) = 18
            /\ w[1] = "1" /\ w[2] \in {"Z", "z"}
            /\ AllAlnum(w)
      [] name = "USPS"  -> AllDigits(w) /\ Len(w) \in 22..23 /\ w[1] = "9"
      [] name = "FedEx" -> AllDigits(w) /\ Len(w) \in 12..22
      [] name = "DHL"   -> AllDigits(w) /\ Len(w) = 10
      [] name = "Amazon Logistics" ->
            /\ Len(w) >= 4
            /\ w[1] \in {"T", "t"} /\ w[2] \in {"B", "b"} /\ w[3] \in {"A", "a"}
            /\ AllAlnum(w)

CarrierOrder == <<"UPS", "USPS", "FedEx", "DHL", "Amazon Logistics">>

ShapedWords(name, s) == {iv \in Words(s) : Shape(name, SubSeq(s, iv[1], iv[2]))}

\* C7: detect_tracking reports the carrier of the first pattern, in the order
\* UPS, USPS, FedEx, DHL, Amazon Logistics, that matches anywhere in the body,
\* with the leftmost match of that pattern; a 22-23 digit run starting with 9
\* is USPS and not FedEx; DHL is reported only when no 12-22 digit run is
\* present; and the carrier and the number are empty when nothing matches.
C7_FirstPatternWins ==
    Returned("detect_tracking") =>
        LET b   == arg.body
            hit == {k \in 1..Len(CarrierOrder) : ShapedWords(CarrierOrder[k], b) # {}}
        IN  /\ hit = {} => ret = [carrier |-> "", tracking |-> <<>>]
            /\ hit # {} =>
                  LET name == CarrierOrder[Min(hit)]
                      from == Min({iv[1] : iv \in ShapedWords(name, b)})
                      iv   == CHOOSE w \in ShapedWords(name, b) : w[1] = from
                  IN  /\ ret.carrier = name
                      /\ ret.tracking = SubSeq(b, iv[1], iv[2])
            /\ (ShapedWords("USPS", b) # {} /\ ShapedWords("UPS", b) = {})
                  => ret.carrier = "USPS"
            /\ ret.carrier = "DHL" => ShapedWords("FedEx", b) = {}

\* a 10-digit run stands before a UPS number, and UPS is reported
C7_Witness ==
    /\ Returned("detect_tracking")
    /\ ret.carrier = "UPS"
    /\ \E d \in ShapedWords("DHL", arg.body), u \in ShapedWords("UPS", arg.body) :
          d[1] < u[1]

====
